---- MODULE Spec2Model ----
(***************************************************************************)
(* Model of the line editor's screen buffer and writer (edit/writer.go)    *)
(* and of the terminal key decoder (edit/reader.go).                       *)
(***************************************************************************)
EXTENDS Integers, Sequences, FiniteSets, TLC

VARIABLES buf,      \* the buffer being built, then handed to commitBuffer
          stage,    \* "prompt" before refresh's indent decision, then "text"
          last,     \* the operation performed by the last step
          oldBuf,   \* writer.oldBuf
          out,      \* bytes handed to file.Write by the last commitBuffer
          werr,     \* result of the last commitBuffer: "none", "nil", "err"
          good      \* argument of the last commitBuffer whose write succeeded

VARIABLES rpc,      \* position of readKey: "idle", "esc", "csi", "g3", "panic"
          timeout,  \* rd.timed.Timeout
          r1,       \* readKey's local r
          r2,       \* readKey's local r2
          nums,     \* readKey's local nums
          key,      \* the Key returned by the last readKey
          rerr,     \* the error returned by the last readKey
          reads,    \* the reads of the current or last call: deadline, outcome
          prevEsc   \* whether the call before this one read ESC first

VARIABLES rf        \* the last refresh: the editor state bs and the width it
                    \* was given, its bufLine and bufCompletion, and the
                    \* number of times it assigned the dot

VARIABLES csi       \* a CSI sequence decoded on its own: parameters, final
                    \* rune, the nums accumulated and the result of parseCSI

bvars == <<buf, stage, last>>
wvars == <<oldBuf, out, werr, good>>
rvars == <<rpc, timeout, r1, r2, nums, key, rerr, reads, prevEsc>>
cvars == <<csi>>
fvars == <<rf>>

\* ---------------------------------------------------------------- bounds
MaxWidth == 4
MaxCells == 4
MaxLines == 3
MaxParamReads == 3
MaxCsiParams == 3

\* ------------------------------------------------------- runes and cells
LF == 10
Space == 32
\* (rune, attribute) pairs written: 'a', a wide CJK rune, line feed, BEL
\* (unprintable)
WInputs == {<<97, "">>, <<20013, "1">>, <<LF, "">>, <<7, "">>}

\* unicode.IsPrint on the runes used here
IsPrint(r) == r >= 32 /\ r # 127

\* display width of a rune: 0 combining, 2 wide, 1 otherwise
wcwidth(r) == IF r \in 768..879 THEN 0
              ELSE IF r \in 19968..40959 THEN 2
              ELSE 1

cell(r, w, a) == [rune |-> r, width |-> w, attr |-> a]

pos(l, c) == [line |-> l, col |-> c]

newBuffer(width) ==
    [width |-> width, col |-> 0, indent |-> 0, cells |-> << <<>> >>,
     dot |-> pos(0, 0)]

\* ------------------------------------------------------ buffer operations
appendCell(b, c) ==
    LET n == Len(b.cells)
    IN [b EXCEPT !.cells[n] = Append(b.cells[n], c),
                 !.col = b.col + c.width]

appendLine(b) == [b EXCEPT !.cells = Append(b.cells, <<>>), !.col = 0]

RECURSIVE appendIndent(_, _)
appendIndent(b, i) ==
    IF i >= b.indent THEN b
    ELSE appendIndent(appendCell(b, cell(Space, 1, "")), i + 1)

newline(b) ==
    LET b1 == appendLine(b)
    IN IF b1.indent > 0 THEN appendIndent(b1, 0) ELSE b1

Nil == [nil |-> TRUE]

\* extend that forgets to adopt the column of the joined buffer
extendKeepCol(b, b2) ==
    IF b2 # Nil THEN [b EXCEPT !.cells = b.cells \o b2.cells] ELSE b

extend(b, b2) ==
    IF b2 # Nil
    THEN [b EXCEPT !.cells = b.cells \o b2.cells, !.col = b2.col]
    ELSE b

\* write that wraps one cell too early: >= for >
writeEarlyWrap(b, r, attr) ==
    IF r = LF THEN newline(b)
    ELSE IF ~IsPrint(r) THEN b
    ELSE LET wd == wcwidth(r)
             c == cell(r, wd, attr)
         IN IF b.col + wd >= b.width THEN appendCell(newline(b), c)
            ELSE appendCell(b, c)

write(b, r, attr) ==
    IF r = LF THEN newline(b)
    ELSE IF ~IsPrint(r) THEN b
    ELSE LET wd == wcwidth(r)
             c == cell(r, wd, attr)
         IN IF b.col + wd > b.width THEN appendCell(newline(b), c)
            ELSE IF b.col + wd = b.width THEN newline(appendCell(b, c))
            ELSE appendCell(b, c)

RECURSIVE writes(_, _, _)
writes(b, s, attr) ==
    IF s = <<>> THEN b
    ELSE writes(write(b, Head(s), attr), Tail(s), attr)

Repeat(r, n) == [i \in 1..n |-> r]

writePadding(b, w, attr) == writes(b, Repeat(Space, w), attr)

line(b) == Len(b.cells) - 1

cursor(b) == pos(Len(b.cells) - 1, b.col)

\* ------------------------------------------------------------ the writer
\* One unit of terminal output.  t: "CUU" "CUD" "CUF" "CUB" (cursor motion
\* with parameter n), "CR", "ED" (erase to end of screen), "SGR" (set
\* attribute s; the empty s is the reset "\033[m"), "RUNE" (code point n).
Tok(t, n, s) == [t |-> t, n |-> n, s |-> s]
CUU(n) == Tok("CUU", n, "")
CUD(n) == Tok("CUD", n, "")
CUF(n) == Tok("CUF", n, "")
CUB(n) == Tok("CUB", n, "")
CR == Tok("CR", 0, "")
ED == Tok("ED", 0, "")
SGR(a) == Tok("SGR", 0, a)
SGRReset == SGR("")
RuneTok(r) == Tok("RUNE", r, "")

newWriter == newBuffer(0)

deltaPos(from, to) ==
    (IF from.line < to.line THEN <<CUD(to.line - from.line)>>
     ELSE IF from.line > to.line THEN <<CUU(from.line - to.line)>>
     ELSE <<>>)
    \o
    (IF from.col < to.col THEN <<CUF(to.col - from.col)>>
     ELSE IF from.col > to.col THEN <<CUB(from.col - to.col)>>
     ELSE <<>>)

\* the test without the width condition
attrChangesAnyWidth(c, attr) == c.attr # attr

\* the test of commitBuffer that decides whether a cell changes the attribute
attrChanges(c, attr) == c.width > 0 /\ c.attr # attr

\* inner loop of commitBuffer over the cells of one line
RECURSIVE commitLine(_, _, _)
commitLine(ln, attr, acc) ==
    IF ln = <<>> THEN [bytes |-> acc, attr |-> attr]
    ELSE LET c == Head(ln)
         IN IF attrChanges(c, attr)
            THEN commitLine(Tail(ln), c.attr,
                            acc \o <<SGRReset, SGR(c.attr), RuneTok(c.rune)>>)
            ELSE commitLine(Tail(ln), attr, acc \o <<RuneTok(c.rune)>>)

\* outer loop of commitBuffer over the lines
RECURSIVE commitLines(_, _, _, _)
commitLines(cells, i, attr, acc) ==
    IF i > Len(cells) THEN [bytes |-> acc, attr |-> attr]
    ELSE LET sep == IF i > 1 THEN <<RuneTok(LF)>> ELSE <<>>
             res == commitLine(cells[i], attr, acc \o sep)
         IN commitLines(cells, i + 1, res.attr, res.bytes)

\* the bytes with the cursor moved up by the new buffer's dot line
commitBytesNewDot(old, b) ==
    LET pLine == b.dot.line
        head == (IF pLine > 0 THEN <<CUU(pLine)>> ELSE <<>>) \o <<CR, ED>>
        res == commitLines(b.cells, 1, "", head)
        tail == IF res.attr # "" THEN <<SGRReset>> ELSE <<>>
    IN res.bytes \o tail \o deltaPos(cursor(b), b.dot)

\* the bytes commitBuffer accumulates in bytesBuf
commitBytes(old, b) ==
    LET pLine == old.dot.line
        head == (IF pLine > 0 THEN <<CUU(pLine)>> ELSE <<>>) \o <<CR, ED>>
        res == commitLines(b.cells, 1, "", head)
        tail == IF res.attr # "" THEN <<SGRReset>> ELSE <<>>
    IN res.bytes \o tail \o deltaPos(cursor(b), b.dot)

\* commitBuffer that stores the buffer before the write is known to succeed
commitBufferEager(old, b, ok) ==
    [bytes |-> commitBytes(old, b),
     oldBuf |-> b,
     err |-> IF ok THEN "nil" ELSE "err"]

\* commitBuffer on a writer whose oldBuf is old; ok: file.Write succeeded
commitBuffer(old, b, ok) ==
    [bytes |-> commitBytes(old, b),
     oldBuf |-> IF ok THEN b ELSE old,
     err |-> IF ok THEN "nil" ELSE "err"]

\* ------------------------------------------------------ the buffer's steps
Widths == 1..MaxWidth
\* strings written: "aa", a combining mark and 'a', 'a' and a line feed
WStrings == {<<97, 97>>, <<769, 97>>, <<97, LF>>}

RECURSIVE TotalCells(_)
TotalCells(cells) ==
    IF cells = <<>> THEN 0 ELSE Len(Head(cells)) + TotalCells(Tail(cells))

RECURSIVE LineWidth(_)
LineWidth(ln) == IF ln = <<>> THEN 0 ELSE Head(ln).width + LineWidth(Tail(ln))

Fits(b) == Len(b.cells) <= MaxLines /\ TotalCells(b.cells) <= MaxCells

Op(op, r, attr) == [op |-> op, r |-> r, attr |-> attr]

\* a call that changes the buffer under construction
Build(b, op) ==
    /\ Fits(b)
    /\ buf' = b
    /\ last' = op
    /\ UNCHANGED <<stage, wvars, rvars, cvars, fvars>>

Write == \E in \in WInputs :
    Build(write(buf, in[1], in[2]), Op("write", in[1], in[2]))

Writes == \E s \in WStrings :
    Build(writes(buf, s, ""), Op("writes", 0, ""))

WritePadding == \E n \in 1..2 :
    Build(writePadding(buf, n, ""), Op("writePadding", n, ""))

Newline == Build(newline(buf), Op("newline", 0, ""))

\* refresh: a sub-buffer (mode, tips) is built with writes and joined
Extend == \E b2 \in {Nil} \cup {writes(newBuffer(buf.width), s, "") : s \in WStrings} :
    Build(extend(buf, b2), Op("extend", 0, ""))

AppendCell == \E in \in {<<97, "">>, <<20013, "1">>} :
    Build(appendCell(buf, cell(in[1], wcwidth(in[1]), in[2])),
          Op("appendCell", in[1], in[2]))

AppendLine == Build(appendLine(buf), Op("appendLine", 0, ""))

\* refresh: the indent decision taken after the prompt
setIndent(b) == IF b.col * 2 < b.width THEN [b EXCEPT !.indent = b.col] ELSE b

SetIndent ==
    /\ stage = "prompt"
    /\ stage' = "text"
    /\ buf' = setIndent(buf)
    /\ last' = Op("indent", 0, "")
    /\ UNCHANGED <<wvars, rvars, cvars, fvars>>

\* refresh: b.dot = b.cursor()
setDot(b) == [b EXCEPT !.dot = cursor(b)]

\* ------------------------------------------------------ the writer's steps
\* The buffers handed to commitBuffer: built as refresh builds the line
\* buffer, from a prompt p, the text t1 before the dot and the text t2 after.
lineBuffer(w, p, t1, t2) ==
    LET b0 == setIndent(writes(newBuffer(w), p, "1"))
        b1 == IF t1 = <<>> THEN setDot(b0) ELSE setDot(writes(b0, t1, "2"))
    IN writes(b1, t2, "")

Prompts == {<<>>, <<62>>}
Texts1 == {<<>>, <<97>>, <<97, LF>>, <<769, 97>>, <<20013>>}
Texts2 == {<<>>, <<97>>}

CommitArgs == {lineBuffer(w, p, t1, t2) :
                  w \in Widths, p \in Prompts, t1 \in Texts1, t2 \in Texts2}

Commit == \E b \in CommitArgs, ok \in BOOLEAN :
    /\ buf' = b
    /\ LET res == commitBuffer(oldBuf, b, ok)
       IN /\ out' = res.bytes
          /\ oldBuf' = res.oldBuf
          /\ werr' = res.err
    /\ good' = IF ok THEN b ELSE good
    /\ last' = Op("commit", 0, "")
    /\ UNCHANGED <<stage, rvars, cvars, fvars>>

\* ----------------------------------------------------------------- refresh
\* the attributes and modes of the editor
attrForPrompt == "p"
attrForRprompt == "r"
attrForMode == "m"
attrForTip == "t"
attrForCompleted == ";c"
attrForCurrentCompletion == "s"
attrForType(typ) == typ
ModeInsert == "insert"
ModeCommand == "command"
ModeCompleting == "completing"

RECURSIVE wcwidths(_)
wcwidths(str) ==
    IF str = <<>> THEN 0 ELSE wcwidth(Head(str)) + wcwidths(Tail(str))

CeilDiv(a, b) == (a + b - 1) \div b

\* utf8.RuneLen
RuneLen(c) == IF c < 128 THEN 1
              ELSE IF c < 2048 THEN 2
              ELSE IF c < 65536 THEN 3
              ELSE 4

\* strings.Join
RECURSIVE Join(_, _)
Join(strs, sep) ==
    IF strs = <<>> THEN <<>>
    ELSE IF Len(strs) = 1 THEN strs[1]
    ELSE Head(strs) \o sep \o Join(Tail(strs), sep)

\* the runes of the tokens with their types, in the order refresh ranges
\* over them
RECURSIVE TokenRunes(_)
TokenRunes(tokens) ==
    IF tokens = <<>> THEN <<>>
    ELSE [k \in 1..Len(Head(tokens).Val) |->
             [r |-> Head(tokens).Val[k], typ |-> Head(tokens).Typ]]
         \o TokenRunes(Tail(tokens))

\* refresh: the parts of the selected candidate are written
RECURSIVE writeParts(_, _, _)
writeParts(b, parts, typ) ==
    IF parts = <<>> THEN b
    ELSE LET part == Head(parts)
             attr == IF part.completed
                     THEN attrForType(typ) \o attrForCompleted
                     ELSE attrForType(typ)
         IN writeParts(writes(b, part.text, attr), Tail(parts), typ)

\* refresh: the body of the loop over the runes of the tokens; st holds
\* the buffer b, the byte counter i, suppress, and the number of times the
\* dot has been assigned
lineStep(st, tr, bs) ==
    LET comp == bs.completion
        b1 == IF st.suppress /\ st.i < comp.end THEN st.b
              ELSE write(st.b, tr.r, attrForType(tr.typ))
        i1 == st.i + RuneLen(tr.r)
        put == comp # Nil /\ comp.current # -1 /\ i1 = comp.start
        b2 == IF put
              THEN writeParts(b1, comp.candidates[comp.current + 1].parts,
                              comp.typ)
              ELSE b1
        atDot == bs.dot = i1
    IN [b |-> IF atDot THEN setDot(b2) ELSE b2,
        i |-> i1,
        suppress |-> st.suppress \/ put,
        dots |-> IF atDot THEN st.dots + 1 ELSE st.dots]

RECURSIVE lineLoop(_, _, _)
lineLoop(st, trs, bs) ==
    IF trs = <<>> THEN st
    ELSE lineLoop(lineStep(st, Head(trs), bs), Tail(trs), bs)

\* the right prompt placed up to the last column
writeRpromptToEdge(b, rprompt) ==
    LET padding == b.width - b.col - wcwidths(rprompt)
    IN IF padding >= 1
       THEN writes(writePadding(b, padding, ""), rprompt, attrForRprompt)
       ELSE b

\* refresh: the right prompt
writeRprompt(b, rprompt) ==
    LET padding == b.width - 1 - b.col - wcwidths(rprompt)
    IN IF padding >= 1
       THEN writes(writePadding(b, padding, ""), rprompt, attrForRprompt)
       ELSE b

\* refresh: bufLine
refreshLine(bs, width) ==
    LET b0 == setIndent(writes(newBuffer(width), bs.prompt, attrForPrompt))
        st0 == [b |-> IF bs.dot = 0 THEN setDot(b0) ELSE b0,
                i |-> 0,
                suppress |-> FALSE,
                dots |-> IF bs.dot = 0 THEN 1 ELSE 0]
        st == lineLoop(st0, TokenRunes(bs.tokens), bs)
    IN [st EXCEPT !.b = writeRprompt(st.b, bs.rprompt)]

\* refresh: bufMode, with "-- COMMAND --" or "-- COMPLETING --"
refreshMode(bs, width) ==
    IF bs.mode = ModeInsert THEN Nil
    ELSE IF bs.mode = ModeCommand
    THEN writes(newBuffer(width),
                <<45, 45, 32, 67, 79, 77, 77, 65, 78, 68, 32, 45, 45>>,
                attrForMode)
    ELSE IF bs.mode = ModeCompleting
    THEN writes(newBuffer(width),
                <<45, 45, 32, 67, 79, 77, 80, 76, 69, 84, 73, 78, 71, 32,
                  45, 45>>,
                attrForMode)
    ELSE newBuffer(width)

\* refresh: bufTips
refreshTips(bs, width) ==
    IF Len(bs.tips) > 0
    THEN writes(newBuffer(width), Join(bs.tips, <<44, 32>>), attrForTip)
    ELSE Nil

colMargin == 2

RECURSIVE candWidth(_, _)
candWidth(cands, colWidth) ==
    IF cands = <<>> THEN colWidth
    ELSE LET w == wcwidths(Head(cands).text)
         IN candWidth(Tail(cands), IF colWidth < w THEN w ELSE colWidth)

\* the index taken row by row
gridIndexRowMajor(i, j, lines) == i * lines + j

\* the index of the candidate shown in row i, column j of lines rows
gridIndex(i, j, lines) == j * lines + i

\* refresh: the loops over the rows i and the columns j of the candidates
RECURSIVE gridLoop(_, _, _, _, _, _, _)
gridLoop(b, i, j, lines, cols, colWidth, comp) ==
    IF i >= lines THEN b
    ELSE IF j >= cols
    THEN gridLoop(IF i + 1 < lines THEN newline(b) ELSE b,
                  i + 1, 0, lines, cols, colWidth, comp)
    ELSE LET k == gridIndex(i, j, lines)
         IN IF k >= Len(comp.candidates)
            THEN gridLoop(b, i, j + 1, lines, cols, colWidth, comp)
            ELSE LET attr == IF k = comp.current
                             THEN attrForCurrentCompletion ELSE ""
                     text == comp.candidates[k + 1].text
                     b1 == writes(b, text, attr)
                     b2 == writePadding(b1, colWidth - wcwidths(text), attr)
                     b3 == writePadding(b2, colMargin, "")
                 IN gridLoop(b3, i, j + 1, lines, cols, colWidth, comp)

gridCols(width, colWidth) ==
    LET cols == (width + colMargin) \div (colWidth + colMargin)
    IN IF cols = 0 THEN 1 ELSE cols

\* refresh: bufCompletion
refreshCompletion(bs, width) ==
    IF bs.completion = Nil THEN Nil
    ELSE LET comp == bs.completion
             colWidth == candWidth(comp.candidates, 0)
             cols == gridCols(width, colWidth)
             lines == CeilDiv(Len(comp.candidates), cols)
         IN gridLoop(newBuffer(width), 0, 0, lines, cols, colWidth, comp)

\* the joined buffer with its dot taken after the last sub-buffer
refreshBufferDotAtEnd(bs, width) ==
    setDot(extend(extend(extend(refreshLine(bs, width).b,
                                refreshMode(bs, width)),
                         refreshTips(bs, width)),
                  refreshCompletion(bs, width)))

\* refresh: the buffer handed to commitBuffer
refreshBuffer(bs, width) ==
    extend(extend(extend(refreshLine(bs, width).b, refreshMode(bs, width)),
                  refreshTips(bs, width)),
           refreshCompletion(bs, width))

\* the editor states handed to refresh
EditorState(prompt, rprompt, tokens, dot, mode, tips, completion) ==
    [prompt |-> prompt, rprompt |-> rprompt, tokens |-> tokens, dot |-> dot,
     mode |-> mode, tips |-> tips, completion |-> completion]

Token(val, typ) == [Val |-> val, Typ |-> typ]

Candidate(text, parts) == [text |-> text, parts |-> parts]

Part(text, completed) == [text |-> text, completed |-> completed]

Completion(start, end, current, cands) ==
    [start |-> start, end |-> end, current |-> current, typ |-> "3",
     candidates |-> cands]

RECURSIVE TextBytes(_)
TextBytes(trs) ==
    IF trs = <<>> THEN 0 ELSE RuneLen(Head(trs).r) + TextBytes(Tail(trs))

\* the candidate "xy": "x" typed, "y" suggested
OneCandidate == <<Candidate(<<120, 121>>,
                            <<Part(<<120>>, TRUE), Part(<<121>>, FALSE)>>)>>

\* "> " and the text alone; with right prompt, mode and tip; with a
\* completion of the text from byte 0, from byte 1, and with none selected
LineStatesOf(tokens, dot) ==
    LET n == TextBytes(TokenRunes(tokens))
        p == <<62, 32>>
    IN {EditorState(p, <<>>, tokens, dot, ModeInsert, <<>>, Nil),
        EditorState(p, <<114>>, tokens, dot, ModeCommand, <<(<<116>>)>>, Nil),
        EditorState(p, <<>>, tokens, dot, ModeCompleting, <<>>,
                    Completion(0, 1, 0, OneCandidate)),
        EditorState(p, <<>>, tokens, dot, ModeCompleting, <<>>,
                    Completion(1, n, 0, OneCandidate)),
        EditorState(p, <<>>, tokens, dot, ModeCompleting, <<>>,
                    Completion(1, n, -1, OneCandidate))}

\* the first text at every dot on a wide terminal and at one dot on a
\* narrow one; the second text with the dot inside and after the wide rune;
\* the third text, which fits a narrow terminal with the prompt
LineInputs ==
    LET t1 == <<Token(<<97, 98, 99>>, "1")>>
        t2 == <<Token(<<97>>, "1"), Token(<<20013>>, "2")>>
        t3 == <<Token(<<97>>, "1")>>
    IN {[bs |-> bs, width |-> 10] :
           bs \in UNION {LineStatesOf(t1, d) : d \in {0, 1, 3}}}
       \cup {[bs |-> bs, width |-> 4] : bs \in LineStatesOf(t1, 1)}
       \cup {[bs |-> bs, width |-> 4] : bs \in LineStatesOf(t3, 1)}
       \cup {[bs |-> bs, width |-> 10] :
                bs \in UNION {LineStatesOf(t2, d) : d \in {3, 4}}}

\* candidate lists: foo foobar; a b c; ab c d e f; a wide rune and b
CandTexts == {<<(<<102, 111, 111>>), (<<102, 111, 111, 98, 97, 114>>)>>,
              <<(<<97>>), (<<98>>), (<<99>>)>>,
              <<(<<97, 98>>), (<<99>>), (<<100>>), (<<101>>), (<<102>>)>>,
              <<(<<20013, 97>>), (<<98>>)>>}

CandsOf(texts) ==
    [k \in 1..Len(texts) |-> Candidate(texts[k], <<Part(texts[k], FALSE)>>)]

CompInputs ==
    {[bs |-> EditorState(<<62, 32>>, <<>>, <<Token(<<102>>, "1")>>, 1,
                         ModeCompleting, <<>>,
                         Completion(1, 1, c, CandsOf(t))),
      width |-> w] :
        t \in CandTexts, c \in {-1, 1}, w \in {6, 8, 10, 20}}

\* what refresh builds from the editor state in.bs on a terminal in.width
\* columns wide: bufLine, bufCompletion, and the joined buffer
refreshed(in) ==
    LET ln == refreshLine(in.bs, in.width)
    IN [bs |-> in.bs, width |-> in.width, line |-> ln.b, dots |-> ln.dots,
        comp |-> refreshCompletion(in.bs, in.width),
        buf |-> refreshBuffer(in.bs, in.width)]

LineRefreshed == [in \in LineInputs |-> refreshed(in)]

CompRefreshed == [in \in CompInputs |-> refreshed(in)]

\* refresh: the buffer built is committed
Refresh(built, ok) ==
    LET res == commitBuffer(oldBuf, built.buf, ok)
    IN /\ buf' = built.buf
       /\ out' = res.bytes
       /\ oldBuf' = res.oldBuf
       /\ werr' = res.err
       /\ good' = IF ok THEN built.buf ELSE good
       /\ rf' = [bs |-> built.bs, width |-> built.width, line |-> built.line,
                 dots |-> built.dots, comp |-> built.comp]
       /\ last' = Op("refresh", 0, "")
       /\ UNCHANGED <<stage, rvars, cvars>>

RefreshLine == \E in \in LineInputs, ok \in BOOLEAN :
    Refresh(LineRefreshed[in], ok)

RefreshComp == \E in \in CompInputs, ok \in BOOLEAN :
    Refresh(CompRefreshed[in], ok)

\* ------------------------------------------------------------ the reader
EscTimeout == 10
Blocking == -1
ESC == 27

Ctrl == "Ctrl"
Alt == "Alt"
Shift == "Shift"

\* the code points of the function keys
F1 == -1
F2 == -2
F3 == -3
F4 == -4
F5 == -5
F6 == -6
F7 == -7
F8 == -8
F9 == -9
F10 == -10
F11 == -11
F12 == -12
Up == -13
Down == -14
Right == -15
Left == -16
Home == -17
End == -18
Insert == -19
Delete == -20
PageUp == -21
PageDown == -22
Backspace == -23

Key(c, mod) == [rune |-> c, mod |-> mod]
ZeroKey == Key(0, {})

g3Seq == (80 :> F1) @@ (81 :> F2) @@ (82 :> F3) @@ (83 :> F4)
         @@ (72 :> Home) @@ (70 :> End)

keyByLast == (65 :> Up) @@ (66 :> Down) @@ (67 :> Right) @@ (68 :> Left)
             @@ (72 :> Home) @@ (70 :> End)

keyByNum0 == (1 :> Home) @@ (2 :> Insert) @@ (3 :> Delete) @@ (4 :> End)
             @@ (5 :> PageUp) @@ (6 :> PageDown)
             @@ (11 :> F1) @@ (12 :> F2) @@ (13 :> F3) @@ (14 :> F4)
             @@ (15 :> F5) @@ (17 :> F6) @@ (18 :> F7) @@ (19 :> F8)
             @@ (20 :> F9) @@ (21 :> F10) @@ (23 :> F11) @@ (24 :> F12)

keyByNum2 == (9 :> 9) @@ (13 :> 13)
             @@ (33 :> 33) @@ (35 :> 35) @@ (39 :> 39) @@ (40 :> 40)
             @@ (41 :> 41) @@ (43 :> 43) @@ (44 :> 44) @@ (45 :> 45)
             @@ (46 :> 46)
             @@ (48 :> 48) @@ (49 :> 49) @@ (50 :> 50) @@ (51 :> 51)
             @@ (52 :> 52) @@ (53 :> 53) @@ (54 :> 54) @@ (55 :> 55)
             @@ (56 :> 56) @@ (57 :> 57)
             @@ (58 :> 58) @@ (59 :> 59) @@ (60 :> 60) @@ (61 :> 61)
             @@ (62 :> 62) @@ (63 :> 59)

\* what a call returns: a key and an error ("nil" for none); "panic" stands
\* for a run-time panic (index out of range), which returns nothing
Ret(k, e) == [key |-> k, err |-> e]
BadEscSeq == "BadEscSeq"
Panic == Ret(ZeroKey, "panic")

\* xtermModify with the codes of Alt and Ctrl exchanged
xtermModifySwapped(k, mod) ==
    CASE mod = 0 -> Ret(k, "nil")
      [] mod = 2 -> Ret(Key(k.rune, k.mod \cup {Shift}), "nil")
      [] mod = 3 -> Ret(Key(k.rune, k.mod \cup {Ctrl}), "nil")
      [] mod = 4 -> Ret(Key(k.rune, k.mod \cup {Shift, Ctrl}), "nil")
      [] mod = 5 -> Ret(Key(k.rune, k.mod \cup {Alt}), "nil")
      [] mod = 6 -> Ret(Key(k.rune, k.mod \cup {Shift, Alt}), "nil")
      [] mod = 7 -> Ret(Key(k.rune, k.mod \cup {Alt, Ctrl}), "nil")
      [] mod = 8 -> Ret(Key(k.rune, k.mod \cup {Shift, Alt, Ctrl}), "nil")
      [] OTHER -> Ret(ZeroKey, BadEscSeq)

xtermModify(k, mod) ==
    CASE mod = 0 -> Ret(k, "nil")
      [] mod = 2 -> Ret(Key(k.rune, k.mod \cup {Shift}), "nil")
      [] mod = 3 -> Ret(Key(k.rune, k.mod \cup {Alt}), "nil")
      [] mod = 4 -> Ret(Key(k.rune, k.mod \cup {Shift, Alt}), "nil")
      [] mod = 5 -> Ret(Key(k.rune, k.mod \cup {Ctrl}), "nil")
      [] mod = 6 -> Ret(Key(k.rune, k.mod \cup {Shift, Ctrl}), "nil")
      [] mod = 7 -> Ret(Key(k.rune, k.mod \cup {Alt, Ctrl}), "nil")
      [] mod = 8 -> Ret(Key(k.rune, k.mod \cup {Shift, Alt, Ctrl}), "nil")
      [] OTHER -> Ret(ZeroKey, BadEscSeq)

\* ns[i] of the code: ns is indexed from 0, out of range panics
InRange(ns, i) == i < Len(ns)
At(ns, i) == ns[i + 1]

\* parseCSI whose '~' branch tests len(nums) <= 2 for len(nums) == 1 || == 2
\* and which lacks the leading length test
parseCSILoose(ns, final) ==
    IF final \in DOMAIN keyByLast
    THEN LET k == Key(keyByLast[final], {})
         IN IF Len(ns) = 0 THEN Ret(k, "nil")
            ELSE IF Len(ns) # 2 \/ At(ns, 0) # 1 THEN Ret(ZeroKey, BadEscSeq)
            ELSE xtermModify(k, At(ns, 1))
    ELSE IF final = 126 /\ Len(ns) <= 2
    THEN IF ~InRange(ns, 0) THEN Panic
         ELSE IF At(ns, 0) \in DOMAIN keyByNum0
         THEN LET k == Key(keyByNum0[At(ns, 0)], {})
              IN IF Len(ns) = 2 THEN xtermModify(k, At(ns, 1))
                 ELSE Ret(k, "nil")
         ELSE Ret(ZeroKey, BadEscSeq)
    ELSE Ret(ZeroKey, BadEscSeq)

parseCSI(ns, final) ==
    IF Len(ns) # 0 /\ Len(ns) # 2 THEN Ret(ZeroKey, BadEscSeq)
    ELSE IF final \in DOMAIN keyByLast
    THEN LET k == Key(keyByLast[final], {})
         IN IF Len(ns) = 0 THEN Ret(k, "nil")
            ELSE IF Len(ns) # 2 THEN Ret(ZeroKey, BadEscSeq)
            ELSE IF ~InRange(ns, 0) THEN Panic
            ELSE IF At(ns, 0) # 1 THEN Ret(ZeroKey, BadEscSeq)
            ELSE IF ~InRange(ns, 1) THEN Panic
            ELSE xtermModify(k, At(ns, 1))
    ELSE IF final = 126 /\ (Len(ns) = 1 \/ Len(ns) = 2)
    THEN IF ~InRange(ns, 0) THEN Panic
         ELSE IF At(ns, 0) \in DOMAIN keyByNum0
         THEN LET k == Key(keyByNum0[At(ns, 0)], {})
              IN IF Len(ns) = 2
                 THEN IF ~InRange(ns, 1) THEN Panic
                      ELSE xtermModify(k, At(ns, 1))
                 ELSE Ret(k, "nil")
         ELSE Ret(ZeroKey, BadEscSeq)
    ELSE IF final = 126 /\ Len(ns) = 3
    THEN IF ~InRange(ns, 0) THEN Panic
         ELSE IF At(ns, 0) = 27
         THEN IF ~InRange(ns, 2) THEN Panic
              ELSE IF At(ns, 2) \in DOMAIN keyByNum2
              THEN IF ~InRange(ns, 1) THEN Panic
                   ELSE xtermModify(Key(keyByNum2[At(ns, 2)], {}), At(ns, 1))
              ELSE Ret(ZeroKey, BadEscSeq)
         ELSE Ret(ZeroKey, BadEscSeq)
    ELSE Ret(ZeroKey, BadEscSeq)

\* the outcome of one ReadRune on the timed byte source
Got(kind, c) == [kind |-> kind, r |-> c]
\* ESC [ O ; '1' '5' 'A' '~' 'P' 'x' and the control codes 0x00 0x01 0x1d
\* 0x1f 0x7f
RRunes == {ESC, 91, 79, 59, 49, 53, 65, 126, 80, 120, 0, 1, 29, 31, 127}

\* with a negative timeout the source blocks: it never reports Timeout
Outcomes(t) ==
    {Got("rune", c) : c \in RRunes} \cup {Got("err", 0)}
    \cup (IF t >= 0 THEN {Got("timeout", 0)} ELSE {})

ErrOf(o) == IF o.kind = "timeout" THEN "Timeout" ELSE "io"

\* readKey up to its switch on the first rune; "esc" continues in the ESC case
readFirst(o) ==
    IF o.kind # "rune" THEN Ret(ZeroKey, ErrOf(o))
    ELSE CASE o.r = 0 -> Ret(Key(96, {Ctrl}), "nil")
           [] o.r = 29 -> Ret(Key(54, {Ctrl}), "nil")
           [] o.r = 31 -> Ret(Key(47, {Ctrl}), "nil")
           [] o.r = 127 -> Ret(Key(Backspace, {}), "nil")
           [] o.r = ESC -> Ret(ZeroKey, "esc")
           [] OTHER -> IF 1 <= o.r /\ o.r <= 29
                       THEN Ret(Key(o.r + 64, {Ctrl}), "nil")
                       ELSE Ret(Key(o.r, {}), "nil")

\* the read of r2 and the switch on it; c is the local r; "csi" and "g3"
\* continue in the cases '[' and 'O'
afterEsc(o, c) ==
    IF o.kind = "timeout" THEN Ret(Key(91, {Ctrl}), "nil")
    ELSE IF o.kind = "err" THEN Ret(ZeroKey, "io")
    ELSE IF o.r = 91 THEN Ret(ZeroKey, "csi")
    ELSE IF o.r = 79 THEN Ret(ZeroKey, "g3")
    ELSE Ret(Key(c, {Alt}), "nil")

IsParam(c) == c = 59 \/ (c >= 48 /\ c <= 57)

\* the parameter accumulation of the CSI loop
addParam(ns, c) ==
    LET ns1 == IF Len(ns) = 0 THEN <<0>> ELSE ns
    IN IF c = 59 THEN Append(ns1, 0)
       ELSE [ns1 EXCEPT ![Len(ns1)] = ns1[Len(ns1)] * 10 + (c - 48)]

\* one round of the CSI loop; "csi" continues the loop
csiRound(o, ns) ==
    IF o.kind = "timeout" THEN Ret(Key(91, {Alt}), "nil")
    ELSE IF o.kind = "err" THEN Ret(ZeroKey, "io")
    ELSE IF IsParam(o.r) THEN Ret(ZeroKey, "csi")
    ELSE parseCSI(ns, o.r)

\* the case 'O' that reports the timeout as an error
afterOTimeoutErr(o, c2) ==
    IF o.kind = "timeout" THEN Ret(ZeroKey, "Timeout")
    ELSE IF o.kind = "err" THEN Ret(ZeroKey, "io")
    ELSE IF o.r \in DOMAIN g3Seq THEN Ret(Key(g3Seq[o.r], {}), "nil")
    ELSE Ret(ZeroKey, BadEscSeq)

\* the case 'O'; c2 is the local r2
afterO(o, c2) ==
    IF o.kind = "timeout" THEN Ret(Key(c2, {Alt}), "nil")
    ELSE IF o.kind = "err" THEN Ret(ZeroKey, "io")
    ELSE IF o.r \in DOMAIN g3Seq THEN Ret(Key(g3Seq[o.r], {}), "nil")
    ELSE Ret(ZeroKey, BadEscSeq)

\* a deferred function that leaves the timeout as it is
deferredKeep(t) == t

\* the deferred function of the ESC case
deferred(t) == Blocking

\* the CSI loop that leaves the timeout on after the first rune
csiTimeoutKeep(t) == t

\* the CSI loop turns the timeout off after a rune has been read
csiTimeoutOff(t) == Blocking

Read(o) == Append(reads, [dl |-> timeout, kind |-> o.kind, r |-> o.r])

\* readKey returns res; esc: from inside the ESC case, t: the timeout then
Return(res, esc, t) ==
    /\ rpc' = IF res.err = "panic" THEN "panic" ELSE "idle"
    /\ key' = res.key
    /\ rerr' = res.err
    /\ timeout' = IF esc THEN deferred(t) ELSE t
    /\ r1' = 0
    /\ r2' = 0
    /\ nums' = <<>>

\* readKey is called and reads its first rune
ReadFirst == \E o \in Outcomes(timeout) :
    /\ rpc = "idle"
    /\ reads' = <<[dl |-> timeout, kind |-> o.kind, r |-> o.r]>>
    /\ prevEsc' = (reads # <<>> /\ reads[1].kind = "rune" /\ reads[1].r = ESC)
    /\ LET res == readFirst(o)
       IN IF res.err = "esc"
          THEN /\ rpc' = "esc"
               /\ timeout' = EscTimeout
               /\ r1' = o.r
               /\ UNCHANGED <<r2, nums, key, rerr>>
          ELSE Return(res, FALSE, timeout)
    /\ UNCHANGED <<bvars, wvars, cvars, fvars>>

\* the read of the rune after ESC
ReadAfterEsc == \E o \in Outcomes(timeout) :
    /\ rpc = "esc"
    /\ reads' = Read(o)
    /\ LET res == afterEsc(o, r1)
       IN IF res.err \in {"csi", "g3"}
          THEN /\ rpc' = res.err
               /\ r2' = o.r
               /\ nums' = <<>>
               /\ UNCHANGED <<timeout, r1, key, rerr>>
          ELSE Return(res, TRUE, timeout)
    /\ UNCHANGED <<bvars, wvars, cvars, fvars, prevEsc>>

\* the parameter reads of the call so far
ParamReads == Len(reads) - 2

\* one round of the CSI loop
ReadCSI == \E o \in Outcomes(timeout) :
    /\ rpc = "csi"
    /\ (o.kind = "rune" /\ IsParam(o.r)) => ParamReads < MaxParamReads
    /\ reads' = Read(o)
    /\ LET res == csiRound(o, nums)
       IN IF res.err = "csi"
          THEN /\ timeout' = csiTimeoutOff(timeout)
               /\ r1' = o.r
               /\ nums' = addParam(nums, o.r)
               /\ UNCHANGED <<rpc, r2, key, rerr>>
          ELSE Return(res, TRUE,
                      IF o.kind = "rune" THEN csiTimeoutOff(timeout)
                      ELSE timeout)
    /\ UNCHANGED <<bvars, wvars, cvars, fvars, prevEsc>>

\* the read of the rune after ESC O
ReadG3 == \E o \in Outcomes(timeout) :
    /\ rpc = "g3"
    /\ reads' = Read(o)
    /\ Return(afterO(o, r2), TRUE, timeout)
    /\ UNCHANGED <<bvars, wvars, cvars, fvars, prevEsc>>

\* ------------------------------------------- a CSI sequence on its own
\* The parameters of a sequence: numbers, -1 for an empty parameter.
ParamVals == {-1, 0, 1, 2, 3, 4, 5, 6, 7, 8, 9, 13, 24, 27}
\* final runes: A B C D H F ~ x
Finals == {65, 66, 67, 68, 72, 70, 126, 120}

RECURSIVE Digits(_)
Digits(n) == IF n < 0 THEN <<>>
             ELSE IF n < 10 THEN <<48 + n>>
             ELSE Digits(n \div 10) \o <<48 + (n % 10)>>

\* the runes between ESC [ and the final rune
RECURSIVE ParamRunes(_)
ParamRunes(ps) ==
    IF ps = <<>> THEN <<>>
    ELSE IF Len(ps) = 1 THEN Digits(ps[1])
    ELSE Digits(Head(ps)) \o <<59>> \o ParamRunes(Tail(ps))

\* the CSI loop of readKey over the parameter runes rs
RECURSIVE csiLoop(_, _)
csiLoop(rs, ns) ==
    IF rs = <<>> THEN ns ELSE csiLoop(Tail(rs), addParam(ns, Head(rs)))

NoRet == Ret(ZeroKey, "none")

CsiInputs ==
    UNION {[1..n -> ParamVals] : n \in 0..MaxCsiParams}

\* readKey after ESC [ reads the parameters ps and the final rune
DecodeCSI ==
    /\ csi.res = NoRet
    /\ LET ns == csiLoop(ParamRunes(csi.ps), <<>>)
       IN csi' = [csi EXCEPT !.nums = ns, !.res = parseCSI(ns, csi.final)]
    /\ UNCHANGED <<bvars, wvars, rvars, fvars>>

vars == <<bvars, wvars, rvars, cvars, fvars>>

InitBase ==
    /\ buf \in {newBuffer(w) : w \in Widths}
    /\ stage = "prompt"
    /\ last = Op("init", 0, "")
    /\ oldBuf = newWriter
    /\ out = <<>>
    /\ werr = "none"
    /\ good = newBuffer(0)
    /\ rpc = "idle"
    /\ timeout = Blocking
    /\ r1 = 0
    /\ r2 = 0
    /\ nums = <<>>
    /\ key = ZeroKey
    /\ rerr = "none"
    /\ reads = <<>>
    /\ prevEsc = FALSE
    /\ rf = [bs |-> Nil, width |-> 0, line |-> newBuffer(0), dots |-> 0,
             comp |-> Nil]

Init ==
    /\ InitBase
    /\ csi = [ps |-> <<>>, final |-> 0, nums |-> <<>>, res |-> NoRet]

\* a CSI sequence is about to be decoded
InitCSI ==
    /\ InitBase
    /\ buf.width = 1
    /\ csi \in [ps : CsiInputs, final : Finals, nums : {<<>>}, res : {NoRet}]

\* the buffer under the calls that wrap: write, writes, writePadding, newline,
\* extend
Next == \/ Write
        \/ Writes
        \/ WritePadding
        \/ Newline
        \/ Extend
        \/ SetIndent

Spec == Init /\ [][Next]_vars

\* the buffer under all its operations
NextCells == Next \/ AppendCell \/ AppendLine

SpecCells == Init /\ [][NextCells]_vars

\* the writer under a sequence of commits
NextW == Commit

SpecW == Init /\ [][NextW]_vars

\* the reader under a sequence of readKey calls
NextRd == \/ ReadFirst
          \/ ReadAfterEsc
          \/ ReadCSI
          \/ ReadG3

SpecRd == Init /\ [][NextRd]_vars

\* refresh of the edit line
NextRf == RefreshLine

SpecRf == Init /\ [][NextRf]_vars

\* refresh with a completion menu
NextComp == RefreshComp

SpecComp == Init /\ [][NextComp]_vars

\* the decoding of single CSI sequences
NextCSI == DecodeCSI

SpecCSI == InitCSI /\ [][NextCSI]_vars

\* ------------------------------------------------------------ properties
Max(S) == CHOOSE x \in S : \A y \in S : y <= x

LastLine(b) == b.cells[Len(b.cells)]

\* C1: after any sequence of write calls on a buffer of width W no line of
\* the buffer has summed cell widths greater than W.
NoOverflow ==
    \A i \in 1..Len(buf.cells) : LineWidth(buf.cells[i]) <= buf.width

\* C2: after any sequence of buffer operations the cursor is (index of the
\* last line, summed cell widths of the last line).
CursorAtEndOfLastLine ==
    cursor(buf) = pos(Len(buf.cells) - 1, LineWidth(LastLine(buf)))

\* an extend has joined a sub-buffer whose last line is not empty
ExtendedWithColumn ==
    /\ last.op = "extend"
    /\ Len(buf.cells) > 1
    /\ buf.col > 0

\* C3: write of a printable rune of width w at column c of a buffer of width
\* W: c + w > W puts the cell on a new line after the indent padding,
\* c + w = W appends the cell and opens a fresh line, c + w < W appends the
\* cell and adds no line.
WrapRule ==
    [][(last'.op = "write" /\ last'.r # LF /\ IsPrint(last'.r)) =>
        LET c == buf.col
            w == wcwidth(last'.r)
            n == Len(buf.cells)
            cl == cell(last'.r, w, last'.attr)
            pad == [i \in 1..buf.indent |-> cell(Space, 1, "")]
        IN /\ c + w > buf.width =>
                /\ Len(buf'.cells) = n + 1
                /\ buf'.cells[n] = buf.cells[n]
                /\ buf'.cells[n + 1] = pad \o <<cl>>
           /\ c + w = buf.width =>
                /\ Len(buf'.cells) = n + 1
                /\ buf'.cells[n] = Append(buf.cells[n], cl)
                /\ buf'.cells[n + 1] = pad
           /\ c + w < buf.width =>
                /\ Len(buf'.cells) = n
                /\ buf'.cells[n] = Append(buf.cells[n], cl)]_vars

\* a width-2 cell written at column W - 1 of an indented buffer began a line
WideCellWrapped ==
    /\ last.op = "write"
    /\ wcwidth(last.r) = 2
    /\ buf.indent > 0
    /\ Len(buf.cells) > 1
    /\ LineWidth(buf.cells[Len(buf.cells) - 1]) = buf.width - 1
    /\ LastLine(buf)[Len(LastLine(buf))].rune = last.r

\* C4: the writer's previous buffer is the argument of the most recent
\* commit whose write succeeded, or the initial zero-width empty buffer.
OldBufIsLastGood ==
    /\ oldBuf = good
    /\ werr = "none" => oldBuf = newBuffer(0)

\* a commit failed after another had succeeded with a different buffer
FailedAfterGood ==
    /\ werr = "err"
    /\ oldBuf # newBuffer(0)
    /\ oldBuf # buf

RECURSIVE Flat(_)
Flat(cells) == IF cells = <<>> THEN <<>> ELSE Head(cells) \o Flat(Tail(cells))

\* the runes of a buffer as commit emits them: lines separated by line feeds
RECURSIVE Runes(_, _)
Runes(cells, i) ==
    IF i > Len(cells) THEN <<>>
    ELSE (IF i > 1 THEN <<LF>> ELSE <<>>)
         \o [j \in 1..Len(cells[i]) |-> cells[i][j].rune]
         \o Runes(cells, i + 1)

IsRune(t) == t.t = "RUNE"

\* C5: the bytes of a commit begin with cursor-up by the dot line N of the
\* last successfully committed buffer (omitted when N = 0), then CR and
\* erase-to-end-of-screen, and only then the cells of the new buffer.
CommitPrefix ==
    [][last'.op = "commit" =>
        LET N == good.dot.line
            k == IF N > 0 THEN 1 ELSE 0
        IN /\ Len(out') >= k + 2
           /\ N > 0 => out'[1] = CUU(N)
           /\ out'[k + 1] = CR
           /\ out'[k + 2] = ED
           /\ LET rest == SubSeq(out', k + 3, Len(out'))
                  rs == SelectSeq(rest, IsRune)
              IN [j \in 1..Len(rs) |-> rs[j].n] = Runes(buf'.cells, 1)]_vars

\* a failed commit of a one-line buffer moved the cursor up by the dot line
\* of the buffer committed before it
CursorUpAfterFailure ==
    /\ last.op = "commit"
    /\ werr = "err"
    /\ Len(buf.cells) = 1
    /\ good.dot.line > 0
    /\ out[1] = CUU(good.dot.line)

\* positions in out of the code points of the committed cells
CellPos == SelectSeq([i \in 1..Len(out) |-> i],
                     LAMBDA i : out[i].t = "RUNE" /\ out[i].n # LF)

\* the attribute set by the output before position i
InForce(i) ==
    LET S == {k \in 1..(i - 1) : out[k].t = "SGR"}
    IN IF S = {} THEN "" ELSE out[Max(S)].s

Under(j) == InForce(CellPos[j])

Before(j) == IF j = 1 THEN "" ELSE Under(j - 1)

\* after the last cell a reset is emitted iff an attribute is in force
TrailingReset ==
    LET n == Len(CellPos)
        fin == IF n = 0 THEN "" ELSE Under(n)
        from == IF n = 0 THEN 1 ELSE CellPos[n] + 1
    IN (fin # "") <=> (\E k \in from..Len(out) : out[k] = SGRReset)

\* C6 as stated: every cell whose attribute differs from the one in force
\* is preceded by a reset and its attribute, so every code point is emitted
\* under its cell's attribute; a final reset iff an attribute is in force.
EveryCellUnderItsAttr ==
    last.op = "commit" =>
        LET cs == Flat(buf.cells)
        IN /\ Len(CellPos) = Len(cs)
           /\ \A j \in 1..Len(cs) :
                /\ out[CellPos[j]].n = cs[j].rune
                /\ Under(j) = cs[j].attr
           /\ TrailingReset

\* C6 amended: the same for the cells of nonzero width; a zero-width cell is
\* emitted with no attribute change in front of it.
WideCellsUnderTheirAttr ==
    last.op = "commit" =>
        LET cs == Flat(buf.cells)
        IN /\ Len(CellPos) = Len(cs)
           /\ \A j \in 1..Len(cs) :
                LET p == CellPos[j]
                IN /\ out[p].n = cs[j].rune
                   /\ cs[j].width > 0 => Under(j) = cs[j].attr
                   /\ IF cs[j].width > 0 /\ cs[j].attr # Before(j)
                      THEN out[p - 2] = SGRReset /\ out[p - 1] = SGR(cs[j].attr)
                      ELSE out[p - 1].t # "SGR"
           /\ TrailingReset

\* a zero-width cell was committed whose attribute is not the one in force
ZeroWidthCellCommitted ==
    /\ last.op = "commit"
    /\ \E j \in 1..Len(Flat(buf.cells)) :
          /\ Flat(buf.cells)[j].width = 0
          /\ Flat(buf.cells)[j].attr # Before(j)
    /\ \E j \in 1..Len(Flat(buf.cells)) :
          /\ Flat(buf.cells)[j].width > 0
          /\ Flat(buf.cells)[j].attr # Before(j)

\* the last readKey call has returned
Returned == rpc = "idle" /\ reads # <<>>

\* the current or last readKey call read ESC as its first rune
EscCall == reads # <<>> /\ reads[1].kind = "rune" /\ reads[1].r = ESC

LastRead == reads[Len(reads)]

\* C7: whatever the byte source delivers, readKey does not panic, and it
\* returns either a key with no error or an error with ZeroKey.
DecoderTotal ==
    /\ rpc # "panic"
    /\ Returned =>
          \/ rerr = "nil"
          \/ rerr \in {"io", "Timeout", BadEscSeq} /\ key = ZeroKey

\* ESC [ ; ; ~ was decoded: three parameters, two consecutive semicolons
CsiThreeEmptyParams ==
    /\ Returned
    /\ Len(reads) = 5
    /\ reads[2].r = 91
    /\ reads[3].r = 59
    /\ reads[4].r = 59
    /\ reads[5].kind = "rune" /\ reads[5].r = 126
    /\ rerr = BadEscSeq

\* C8: when a readKey call that read ESC first has returned, the timeout
\* is back to blocking, and the first read of the call after it has no
\* deadline.
TimeoutRestored ==
    /\ (Returned /\ EscCall) => timeout = Blocking
    /\ (prevEsc /\ reads # <<>>) => reads[1].dl = Blocking

\* a call that follows an ESC call has returned the key of a bare ESC
CallAfterBareEsc ==
    /\ prevEsc
    /\ Returned
    /\ rerr = "nil"
    /\ key = Key(91, {Ctrl})

\* C9 as stated: within a call only the read of the rune after ESC has a
\* deadline.
OnlyReadAfterEscTimed ==
    \A i \in 1..Len(reads) :
        reads[i].dl = IF i = 2 THEN EscTimeout ELSE Blocking

\* C9 amended: the read of the rune after ESC and the read after it (the
\* first read after ESC [, the read after ESC O) have the deadline
\* EscTimeout; every later read of the call has none.
DeadlineOnFirstTwoReads ==
    \A i \in 1..Len(reads) :
        reads[i].dl = IF i \in {2, 3} THEN EscTimeout ELSE Blocking

\* a CSI sequence with a parameter was read to its final rune
CsiWithParamRead ==
    /\ Returned
    /\ Len(reads) >= 4
    /\ reads[2].r = 91
    /\ LastRead.kind = "rune"

\* C10: a Timeout inside the ESC case is returned as a key, never as an
\* error: Ctrl+[ after ESC, Alt+[ after ESC [, Alt+O after ESC O; any other
\* read error there is returned with ZeroKey.
TimeoutBecomesKey ==
    (Returned /\ EscCall) =>
        /\ rerr # "Timeout"
        /\ (LastRead.kind = "timeout" /\ Len(reads) = 2) =>
              (key = Key(91, {Ctrl}) /\ rerr = "nil")
        /\ (LastRead.kind = "timeout" /\ Len(reads) = 3 /\ reads[2].r = 91) =>
              (key = Key(91, {Alt}) /\ rerr = "nil")
        /\ (LastRead.kind = "timeout" /\ Len(reads) = 3 /\ reads[2].r = 79) =>
              (key = Key(79, {Alt}) /\ rerr = "nil")
        /\ LastRead.kind = "timeout" => Len(reads) \in {2, 3}
        /\ LastRead.kind = "err" => (key = ZeroKey /\ rerr = "io")

\* the read after ESC O timed out
TimedOutAfterEscO ==
    /\ Returned
    /\ Len(reads) = 3
    /\ reads[2].r = 79
    /\ reads[3].kind = "timeout"

\* C11: once the first rune after ESC [ has been read the timeout is off
\* for the rest of the sequence: no later read times out, and a sequence
\* with a rune after ESC [ is never returned as Alt+[.
CsiNotCutOff ==
    (EscCall /\ Len(reads) >= 3 /\ reads[2].kind = "rune" /\ reads[2].r = 91
       /\ reads[3].kind = "rune") =>
        /\ rpc = "csi" => timeout = Blocking
        /\ \A i \in 4..Len(reads) :
              reads[i].dl = Blocking /\ reads[i].kind # "timeout"
        /\ Returned => key # Key(91, {Alt})

\* a CSI sequence of two parameter runes and a final rune has been decoded
CsiReadPastFirstRune ==
    /\ Returned
    /\ EscCall
    /\ Len(reads) = 5
    /\ reads[2].r = 91
    /\ \A i \in 3..5 : reads[i].kind = "rune"

\* C12: when the rune read after ESC is neither '[' nor 'O', readKey
\* returns that rune with exactly the Alt modifier.
AltKeyAfterEsc ==
    (Returned /\ EscCall /\ Len(reads) = 2 /\ reads[2].kind = "rune") =>
        (key = Key(reads[2].r, {Alt}) /\ rerr = "nil")

\* the key the first rune c, not ESC, is to be decoded to
FirstRuneKey(c) ==
    CASE c = 0 -> Key(96, {Ctrl})
      [] c = 29 -> Key(94, {Ctrl})
      [] c = 31 -> Key(47, {Ctrl})
      [] c = 127 -> Key(Backspace, {})
      [] c >= 1 /\ c < 29 -> Key(c + 64, {Ctrl})
      [] OTHER -> Key(c, {})

\* C13: a first rune that is not ESC is decoded to: 0x00 Ctrl+`, 0x1d
\* Ctrl+^, 0x1f Ctrl+/, 0x7f Backspace, 0x01..0x1d Ctrl+(r + 0x40), any
\* other rune itself.
FirstRuneDecoded ==
    (Returned /\ Len(reads) = 1 /\ reads[1].kind = "rune") =>
        (key = FirstRuneKey(reads[1].r) /\ rerr = "nil")

\* the CSI sequence has been decoded
Decoded == csi.res # NoRet

\* the number of parameters of the sequence: none when no rune precedes the
\* final one
ParamCount == IF ParamRunes(csi.ps) = <<>> THEN 0 ELSE Len(csi.ps)

\* the value of parameter i (from 0); an empty parameter is 0
ParamVal(i) == IF csi.ps[i + 1] < 0 THEN 0 ELSE csi.ps[i + 1]

\* the modifiers of the xterm modifier codes
XtermMods == (0 :> {}) @@ (2 :> {Shift}) @@ (3 :> {Alt}) @@ (4 :> {Shift, Alt})
             @@ (5 :> {Ctrl}) @@ (6 :> {Shift, Ctrl}) @@ (7 :> {Alt, Ctrl})
             @@ (8 :> {Shift, Alt, Ctrl})

Modified(c, code) ==
    IF code \in DOMAIN XtermMods THEN Ret(Key(c, XtermMods[code]), "nil")
    ELSE Ret(ZeroKey, BadEscSeq)

ArrowKeys == (65 :> Up) @@ (66 :> Down) @@ (67 :> Right) @@ (68 :> Left)
             @@ (72 :> Home) @@ (70 :> End)

\* C14: a CSI sequence with final rune A B C D H F is Up Down Right Left Home
\* End: unmodified with no parameter, with the modifiers of the second
\* parameter when there are two and the first is 1, BadEscSeq otherwise.
ArrowKeysDecoded ==
    (Decoded /\ csi.final \in DOMAIN ArrowKeys) =>
        csi.res = IF ParamCount = 0 THEN Ret(Key(ArrowKeys[csi.final], {}), "nil")
                  ELSE IF ParamCount = 2 /\ ParamVal(0) = 1
                  THEN Modified(ArrowKeys[csi.final], ParamVal(1))
                  ELSE Ret(ZeroKey, BadEscSeq)

\* ESC [ 1 ; 5 A has been decoded to Up with Ctrl
CtrlUpDecoded ==
    /\ Decoded
    /\ csi.ps = <<1, 5>>
    /\ csi.final = 65
    /\ csi.res = Ret(Key(Up, {Ctrl}), "nil")

KeypadKeys == (1 :> Home) @@ (2 :> Insert) @@ (3 :> Delete) @@ (4 :> End)
              @@ (5 :> PageUp) @@ (6 :> PageDown)
              @@ (11 :> F1) @@ (12 :> F2) @@ (13 :> F3) @@ (14 :> F4)
              @@ (15 :> F5) @@ (17 :> F6) @@ (18 :> F7) @@ (19 :> F8)
              @@ (20 :> F9) @@ (21 :> F10) @@ (23 :> F11) @@ (24 :> F12)

\* C15: a CSI sequence with final rune '~': one or two parameters look the
\* first up in the keypad table (modified by the second), three parameters
\* of which the first is 27 look the third up in the other-keys table
\* (modified by the second); BadEscSeq otherwise.
TildeKeysDecoded ==
    (Decoded /\ csi.final = 126) =>
        csi.res =
            IF ParamCount \in {1, 2} /\ ParamVal(0) \in DOMAIN KeypadKeys
            THEN IF ParamCount = 1
                 THEN Ret(Key(KeypadKeys[ParamVal(0)], {}), "nil")
                 ELSE Modified(KeypadKeys[ParamVal(0)], ParamVal(1))
            ELSE IF ParamCount = 3 /\ ParamVal(0) = 27
                    /\ ParamVal(2) \in DOMAIN keyByNum2
            THEN Modified(keyByNum2[ParamVal(2)], ParamVal(1))
            ELSE Ret(ZeroKey, BadEscSeq)

\* a refresh has been done
Refreshed == last.op = "refresh"

RunesOf(cs) == [k \in 1..Len(cs) |-> cs[k].rune]

\* the byte offset of the k-th rune of the text
Offset(trs, k) == TextBytes(SubSeq(trs, 1, k - 1))

\* the runes of the text whose byte offset satisfies Keep
TextRunesWhere(trs, Keep(_)) ==
    LET idx == SelectSeq([k \in 1..Len(trs) |-> k],
                         LAMBDA k : Keep(Offset(trs, k)))
    IN [k \in 1..Len(idx) |-> trs[idx[k]].r]

\* the text of all parts of a candidate
RECURSIVE PartsText(_)
PartsText(parts) ==
    IF parts = <<>> THEN <<>> ELSE Head(parts).text \o PartsText(Tail(parts))

\* the cells of bufLine that come from the text or from the candidate
EditCells ==
    SelectSeq(Flat(rf.line.cells),
              LAMBDA c : c.attr \in {"1", "2", "3", "3" \o attrForCompleted})

\* C16: with a selected candidate and any byte range [start, end) of the
\* text, start = 0 included, bufLine holds the text before start, the parts
\* of the candidate once, and the text from end on; no rune of the range.
CandidateReplacesRange ==
    (Refreshed /\ rf.bs.completion # Nil /\ rf.bs.completion.current # -1) =>
        LET comp == rf.bs.completion
            trs == TokenRunes(rf.bs.tokens)
        IN RunesOf(EditCells) =
              TextRunesWhere(trs, LAMBDA o : o < comp.start)
              \o PartsText(comp.candidates[comp.current + 1].parts)
              \o TextRunesWhere(trs, LAMBDA o : o >= comp.end)

\* the same for the ranges that do not start at byte 0
CandidateReplacesLaterRange ==
    (Refreshed /\ rf.bs.completion # Nil /\ rf.bs.completion.current # -1
       /\ rf.bs.completion.start > 0) =>
        LET comp == rf.bs.completion
            trs == TokenRunes(rf.bs.tokens)
        IN RunesOf(EditCells) =
              TextRunesWhere(trs, LAMBDA o : o < comp.start)
              \o PartsText(comp.candidates[comp.current + 1].parts)
              \o TextRunesWhere(trs, LAMBDA o : o >= comp.end)

RECURSIVE Concat(_)
Concat(seqs) == IF seqs = <<>> THEN <<>> ELSE Head(seqs) \o Concat(Tail(seqs))

Cands == rf.bs.completion.candidates

\* the widest candidate
ColWidth == Max({0} \cup {wcwidths(Cands[k].text) : k \in 1..Len(Cands)})

GridCols == Max({1, (rf.width + 2) \div (ColWidth + 2)})

\* the least number of rows of GridCols columns that hold all candidates
GridRows == CHOOSE n \in 0..Len(Cands) :
               /\ n * GridCols >= Len(Cands)
               /\ n = 0 \/ (n - 1) * GridCols < Len(Cands)

\* the candidates in the order of the grid read row by row: the cell in row
\* i and column j holds candidate j * GridRows + i
GridOrder ==
    SelectSeq([p \in 1..(GridRows * GridCols) |->
                  ((p - 1) % GridCols) * GridRows + ((p - 1) \div GridCols)],
              LAMBDA k : k < Len(Cands))

\* the cells of candidate k: its text, highlighted iff it is the current
\* one, padded to ColWidth, and two unstyled spaces
GridEntry(k) ==
    LET text == Cands[k + 1].text
        a == IF k = rf.bs.completion.current
             THEN attrForCurrentCompletion ELSE ""
    IN [n \in 1..Len(text) |-> cell(text[n], wcwidth(text[n]), a)]
       \o [n \in 1..(ColWidth - wcwidths(text)) |-> cell(Space, 1, a)]
       \o [n \in 1..2 |-> cell(Space, 1, "")]

\* C17: the completion buffer holds the candidates of a grid of
\* max(1, (width + 2) / (ColWidth + 2)) columns and ceil(count / columns)
\* rows, cell (row, col) showing candidate col * rows + row, each candidate
\* once, each as its text padded to ColWidth and followed by two spaces.
CompletionGrid ==
    (Refreshed /\ rf.bs.completion # Nil) =>
        /\ Flat(rf.comp.cells) =
              Concat([q \in 1..Len(GridOrder) |-> GridEntry(GridOrder[q])])
        /\ Len(GridOrder) = Len(Cands)
        /\ {GridOrder[q] : q \in 1..Len(GridOrder)} = 0..(Len(Cands) - 1)

\* foo and foobar, the second selected, on 10 columns: one column, two rows
FooFoobarGrid ==
    /\ Refreshed
    /\ rf.width = 10
    /\ rf.bs.completion # Nil
    /\ rf.bs.completion.current = 1
    /\ Len(Cands) = 2
    /\ ColWidth = 6
    /\ GridCols = 1
    /\ GridRows = 2
    /\ Len(rf.comp.cells) = 2
    /\ RunesOf(rf.comp.cells[1]) = <<102, 111, 111, 32, 32, 32, 32, 32>>
    /\ rf.comp.cells[2][1].attr = attrForCurrentCompletion

\* a grid of more than one row and more than one column has been laid out
GridOfRowsAndColumns ==
    /\ Refreshed
    /\ rf.bs.completion # Nil
    /\ GridCols > 1
    /\ GridRows > 1

\* the runes of the text of the editor state f.bs
TextOf(f) ==
    LET trs == TokenRunes(f.bs.tokens) IN [k \in 1..Len(trs) |-> trs[k].r]

\* the edit cursor of f.bs is before a rune of the text or at its end
DotAtRune(f) ==
    LET trs == TokenRunes(f.bs.tokens)
    IN f.bs.dot \in {Offset(trs, k) : k \in 1..(Len(trs) + 1)}

\* the editor state f.bs is in insert mode, has no tips, no completion and
\* no right prompt, and its prompt and text fit on one line of f.width
OneLineCase(f) ==
    /\ DotAtRune(f)
    /\ f.bs.mode = ModeInsert
    /\ f.bs.tips = <<>>
    /\ f.bs.completion = Nil
    /\ f.bs.rprompt = <<>>
    /\ \A k \in 1..Len(TextOf(f)) : TextOf(f)[k] # LF
    /\ wcwidths(f.bs.prompt) + wcwidths(TextOf(f)) <= f.width

PromptCells(f) ==
    [k \in 1..Len(f.bs.prompt) |->
        cell(f.bs.prompt[k], wcwidth(f.bs.prompt[k]), attrForPrompt)]

TextCells(f) ==
    LET trs == TokenRunes(f.bs.tokens)
    IN [k \in 1..Len(trs) |->
          cell(trs[k].r, wcwidth(trs[k].r), attrForType(trs[k].typ))]

\* the spaces that fill the line up to the column before the last
PaddingCells(f) ==
    LET n == f.width - 1 - wcwidths(f.bs.prompt) - wcwidths(TextOf(f))
    IN [k \in 1..n |-> cell(Space, 1, "")]

\* prompt width + width of the text before the edit cursor
DotCol(f) ==
    wcwidths(f.bs.prompt)
    + wcwidths(TextRunesWhere(TokenRunes(f.bs.tokens),
                              LAMBDA o : o < f.bs.dot))

CellsWidth(cs) == wcwidths(RunesOf(cs))

\* the attribute in force after the first j of the cells cs are emitted
AttrAfter(cs, j) ==
    LET S == {k \in 1..j : cs[k].width > 0}
    IN IF S = {} THEN "" ELSE cs[Max(S)].attr

\* the cells cs as emitted: a reset and the attribute before each cell
\* that changes it, a final reset if an attribute is left in force
CellToks(cs) ==
    Concat([j \in 1..Len(cs) |->
               (IF cs[j].width > 0 /\ cs[j].attr # AttrAfter(cs, j - 1)
                THEN <<SGRReset, SGR(cs[j].attr)>> ELSE <<>>)
               \o <<RuneTok(cs[j].rune)>>])
    \o (IF AttrAfter(cs, Len(cs)) # "" THEN <<SGRReset>> ELSE <<>>)

\* the motion on one line from the column after the cells cs to column c
BackTo(cs, c) ==
    IF CellsWidth(cs) > c THEN <<CUB(CellsWidth(cs) - c)>> ELSE <<>>

DotMoment(f) ==
    LET trs == TokenRunes(f.bs.tokens)
        n == Cardinality({k \in 1..Len(trs) : Offset(trs, k) < f.bs.dot})
        b0 == setIndent(writes(newBuffer(f.width), f.bs.prompt, attrForPrompt))
    IN lineLoop([b |-> b0, i |-> 0, suppress |-> FALSE, dots |-> 0],
                SubSeq(trs, 1, n), f.bs).b

\* C19: in one refresh the dot of bufLine is assigned at most once, when
\* the byte counter equals the edit cursor, to the cursor of that moment;
\* the rest of the text, the right prompt, the mode, tips and completion
\* buffers and the commit leave it alone: the committed buffer has it.
DotCapturedOnce ==
    Refreshed =>
        /\ rf.dots <= 1
        /\ rf.dots = 1 <=> DotAtRune(rf)
        /\ rf.line.dot = (IF DotAtRune(rf) THEN cursor(DotMoment(rf))
                          ELSE pos(0, 0))
        /\ buf.dot = rf.line.dot
        /\ werr = "nil" => oldBuf.dot = rf.line.dot

\* the dot was captured inside the text, a right prompt, a mode line and a
\* tip followed, and the buffer was committed
DotKeptUnderModeAndTips ==
    /\ Refreshed
    /\ rf.dots = 1
    /\ rf.bs.dot > 0
    /\ rf.bs.rprompt # <<>>
    /\ rf.bs.mode # ModeInsert
    /\ rf.bs.tips # <<>>
    /\ Len(buf.cells) > Len(rf.line.cells)
    /\ rf.line.dot # cursor(rf.line)
    /\ buf.dot = rf.line.dot
    /\ werr = "nil"
    /\ oldBuf.dot = rf.line.dot

\* the dot was captured after a candidate and a completion grid followed
DotKeptAboveCompletion ==
    /\ Refreshed
    /\ rf.dots = 1
    /\ rf.comp # Nil
    /\ rf.bs.completion.current # -1
    /\ rf.line.dot.line > 0
    /\ buf.dot = rf.line.dot

\* the candidates of row i of the grid, left to right
GridRow(i) ==
    SelectSeq([j \in 1..GridCols |-> (j - 1) * GridRows + i],
              LAMBDA k : k < Len(Cands))

\* C20: with at least one candidate bufCompletion has exactly
\* ceil(candidates / columns) lines, line i holding row i of the grid and
\* nothing else: no row wraps and no blank line separates two rows.
GridRowsAreLines ==
    (Refreshed /\ rf.comp # Nil /\ Len(Cands) >= 1) =>
        /\ Len(rf.comp.cells) = GridRows
        /\ \A i \in 1..Len(rf.comp.cells) :
              rf.comp.cells[i] =
                Concat([q \in 1..Len(GridRow(i - 1)) |->
                           GridEntry(GridRow(i - 1)[q])])

\* the same on terminals wider than a row with its last gap
WideGridRowsAreLines ==
    (Refreshed /\ rf.comp # Nil /\ Len(Cands) >= 1
       /\ GridCols * (ColWidth + 2) < rf.width) =>
        /\ Len(rf.comp.cells) = GridRows
        /\ \A i \in 1..Len(rf.comp.cells) :
              rf.comp.cells[i] =
                Concat([q \in 1..Len(GridRow(i - 1)) |->
                           GridEntry(GridRow(i - 1)[q])])

====
